---- MODULE Spec2Model ----
(***************************************************************************)
(* Model of samcli/commands/deploy/auth_utils.py: the pass that reports,   *)
(* for every function with an Api or HttpApi event, whether authorization  *)
(* is configured.                                                           *)
(*                                                                         *)
(* Python values are abstracted by their shape.  A value that the code     *)
(* only tests for truth (Auth, security) is a BOOLEAN "is truthy".  A      *)
(* value that the code calls .get/.items/.values on has a kind: "map" (a   *)
(* dict), "nonmap" (present but not a dict: None, a string, a list), or    *)
(* "absent" (the key is missing, so .get returns its default).             *)
(***************************************************************************)
EXTENDS Naturals, Sequences, FiniteSets

\* ------------------------------------------------------------- bounds
MaxFunctions == 2
MaxEvents == 2
MaxPaths == 2
MaxOps == 1

\* ------------------------------------------------------------- values
Absent == "<absent>"
RootPath == ""
ChildPath == "ChildStack"
StackPaths == {RootPath, ChildPath}
ApiName == "MyApi"

SeqsUpTo(S, n) == UNION {[1..k -> S] : k \in 0..n}

\* An operation entry under a path: a dict with a truthy "security", a dict
\* without one, or a value that is not a dict.
Operations == {"sec", "nosec", "nonmap"}

\* A path entry ("verb" in the code): a dict of operations, or not a dict.
PathEntries ==
    {[kind |-> "nonmap", ops |-> <<>>]}
    \cup {[kind |-> "map", ops |-> o] : o \in SeqsUpTo(Operations, MaxOps)}

\* The value under "paths": missing, not a dict, or a dict of path entries.
PathsValues(entries, n) ==
    {[kind |-> "absent", items |-> <<>>], [kind |-> "nonmap", items |-> <<>>]}
    \cup {[kind |-> "map", items |-> p] : p \in SeqsUpTo(entries, n)}

NoPaths == [kind |-> "absent", items |-> <<>>]

\* Documents.  "none": None (also what a failed resolution yields);
\* "emptymap": {}; "str": a non-empty value that is not a dict; "map": a
\* non-empty dict (security: its top-level "security" is truthy).
NoneDoc == [kind |-> "none", security |-> FALSE, paths |-> NoPaths]
EmptyDoc == [kind |-> "emptymap", security |-> FALSE, paths |-> NoPaths]
StrDoc == [kind |-> "str", security |-> FALSE, paths |-> NoPaths]

MapDocs(entries, n) ==
    {[kind |-> "map", security |-> s, paths |-> p] :
        s \in BOOLEAN, p \in PathsValues(entries, n)}

Docs == {NoneDoc, EmptyDoc, StrDoc} \cup MapDocs(PathEntries, MaxPaths)

OnePath(op) ==
    [kind |-> "map", items |-> <<[kind |-> "map", ops |-> <<op>>]>>]
SecureDoc == [kind |-> "map", security |-> FALSE, paths |-> OnePath("sec")]
InsecureDoc == [kind |-> "map", security |-> FALSE, paths |-> OnePath("nosec")]
BadPathDoc ==
    [kind |-> "map", security |-> TRUE,
     paths |-> [kind |-> "map", items |-> <<[kind |-> "nonmap", ops |-> <<>>]>>]]
SmallDocs == {EmptyDoc, StrDoc, SecureDoc, InsecureDoc, BadPathDoc}

\* DefinitionUri: None, or a location; a location is identified with what
\* the document resolver returns for it (NoneDoc when the fetch fails).
NoUri == [kind |-> "none", resolves |-> NoneDoc]
Uris(docs) == {[kind |-> "uri", resolves |-> d] : d \in docs}

\* Properties of an API resource.
NoResourceProperties ==
    [kind |-> "absent", Auth |-> FALSE, DefinitionBody |-> EmptyDoc,
     hasBody |-> FALSE, DefinitionUri |-> NoUri]
BadResourceProperties ==
    [kind |-> "nonmap", Auth |-> FALSE, DefinitionBody |-> EmptyDoc,
     hasBody |-> FALSE, DefinitionUri |-> NoUri]
ResourceProperties(bodies, uris) ==
    {[kind |-> "map", Auth |-> a, DefinitionBody |-> b, hasBody |-> TRUE,
      DefinitionUri |-> u] : a \in BOOLEAN, b \in bodies, u \in uris}
    \cup {[kind |-> "map", Auth |-> a, DefinitionBody |-> EmptyDoc,
           hasBody |-> FALSE, DefinitionUri |-> u] : a \in BOOLEAN, u \in uris}

\* A resource body and a scope's resource map (logical name -> resource).
Resource(props) == [Properties |-> props]
EmptyDict == [n \in {} |-> Resource(NoResourceProperties)]
DictWith(r) == [n \in {ApiName} |-> r]
ResourceMaps(propsSet) ==
    {EmptyDict} \cup {DictWith(Resource(p)) : p \in propsSet}

\* Properties of an event.
NoEventProperties ==
    [kind |-> "absent", Auth |-> FALSE, RestApiId |-> Absent, ApiId |-> Absent]
BadEventProperties ==
    [kind |-> "nonmap", Auth |-> FALSE, RestApiId |-> Absent, ApiId |-> Absent]
EventProperties ==
    {[kind |-> "map", Auth |-> a, RestApiId |-> r, ApiId |-> h] :
        a \in BOOLEAN, r \in {Absent, ApiName}, h \in {Absent, ApiName}}

OtherEvent == [Type |-> "S3", Properties |-> NoEventProperties]
ApiEvents(propsSet) ==
    {[Type |-> t, Properties |-> p] : t \in {"Api", "HttpApi"}, p \in propsSet}

FunctionNames == <<"F1", "F2", "F3", "F4">>

VARIABLES
    functions,          \* what sam_function_provider.get_all() yields, in order
    resources,          \* stack path -> resource map of that scope
    pc,                 \* the statement the pass is at
    fi,                 \* index of sam_function in the iteration
    ei,                 \* index of event in sam_function.events.values()
    pj,                 \* index of (event_type, identifier) in the pair list
    auth_resource_list, \* _auth_per_resource, the list being built
    origin,             \* per entry of the list: <<fi, ei>> that appended it
    res_auth,           \* first element of the list given to any() in _auth_id
    swagger,            \* the document _auth_definition_body_and_uri holds
    pi,                 \* index of the path entry being scanned
    auths,              \* _auths
    scan_log,           \* completed scans: [doc, result, advisory]
    calls,              \* external calls made: "read", "advisory"
    raised_at           \* the statement that raised, "" while none has

vars == <<functions, resources, pc, fi, ei, pj, auth_resource_list, origin,
          res_auth, swagger, pi, auths, scan_log, calls, raised_at>>

\* ------------------------------------------------------------ helpers
\* bool(x) of a document value.
Truthy(doc) == doc.kind \in {"str", "map"}

\* dict.get(key, default)
DictGet(dict, key, default) == IF key \in DOMAIN dict THEN dict[key] ELSE default

\* any(list of booleans)
Any(bools) == \E k \in 1..Len(bools) : bools[k]

\* all(list of booleans)
All(bools) == \A k \in 1..Len(bools) : bools[k]

\* list.insert(0, x)
ListPrepend(list, x) == <<x>> \o list

\* list.append(x)
ListAppend(list, x) == Append(list, x)

\* The pair list without the HttpApi pair.
PairsApiOnly == << [event_type |-> "Api", identifier |-> "RestApiId"] >>

\* The pair list with the identifiers exchanged.
PairsSwapped ==
    << [event_type |-> "Api", identifier |-> "ApiId"],
       [event_type |-> "HttpApi", identifier |-> "RestApiId"] >>

\* The (event_type, identifier) pairs _auth_resource_event loops over.
Pairs ==
    << [event_type |-> "Api", identifier |-> "RestApiId"],
       [event_type |-> "HttpApi", identifier |-> "ApiId"] >>

\* `if sam_function.events:`
HasEvents(f) == Len(f.events) > 0

\* SamFunctionProvider.get_resources_by_stack_path
get_resources_by_stack_path(stack_path) == resources[stack_path]

\* The root scope's resources, whatever the function's scope.
ScopeResourcesRoot(f) == get_resources_by_stack_path(RootPath)

\* The resources dict _auth_resource_event hands to _auth_id.
ScopeResources(f) == get_resources_by_stack_path(f.stack_path)

\* event_properties.get(identifier, "") where event_properties is
\* event.get("Properties", {})
ResourceName(props, identifier) ==
    LET v == IF identifier = "RestApiId" THEN props.RestApiId ELSE props.ApiId
    IN  IF props.kind = "absent" \/ v = Absent THEN "" ELSE v

\* A lookup that falls back to the other scopes when the name is missing.
ApiResourceAnyScope(resources_dict, resource_name) ==
    IF resource_name \in DOMAIN resources_dict THEN resources_dict[resource_name]
    ELSE IF \E p \in StackPaths : resource_name \in DOMAIN resources[p]
    THEN LET p == CHOOSE q \in StackPaths : resource_name \in DOMAIN resources[q]
         IN  resources[p][resource_name]
    ELSE Resource(NoResourceProperties)

\* resources_dict.get(resource_name, {})
ApiResource(resources_dict, resource_name) ==
    DictGet(resources_dict, resource_name, Resource(NoResourceProperties))

\* SwaggerReader(definition_body, definition_uri).read(): the inline body
\* when there is one, else the document the resolver returns for the uri,
\* else None.
SwaggerRead(definition_body, definition_uri) ==
    IF Truthy(definition_body) THEN definition_body
    ELSE IF definition_uri.kind = "uri" THEN definition_uri.resolves
    ELSE NoneDoc

\* `if not swagger: swagger = {}`
OrEmpty(doc) == IF Truthy(doc) THEN doc ELSE EmptyDoc

\* bool(_property.get("security", False)) for the dict entries of verb.values()
OperationAuths(ops) ==
    LET keep == SelectSeq(ops, LAMBDA o : o # "nonmap")
    IN  [k \in 1..Len(keep) |-> keep[k] = "sec"]

\* An advisory only when security was found.
EmitsAdvisoryWhenSecure(doc, result) == result

\* `if swagger: LOG.debug(...)`
EmitsAdvisory(doc, result) == Truthy(doc)

\* all(_auths)
ScanResultAll(all_auths) == All(all_auths)

\* `return any(_auths)`
ScanResult(all_auths) == Any(all_auths)

\* all([resource auth, document scan])
AuthIdResultAll(resource_auth, scan_result) == All(<<resource_auth, scan_result>>)

\* any([resource auth, document scan]) in _auth_id
AuthIdResult(resource_auth, scan_result) == Any(<<resource_auth, scan_result>>)

sam_function == functions[fi]
event == sam_function.events[ei]

\* ------------------------------------------------------------- inputs
Function(i, body) ==
    [name |-> FunctionNames[i], stack_path |-> body.stack_path,
     events |-> body.events]

\* Several functions of the root scope, each with several events; the
\* events of one template are of at most two of these kinds.
ManyEvents ==
    { OtherEvent,
      [Type |-> "Api",
       Properties |-> [kind |-> "map", Auth |-> FALSE, RestApiId |-> ApiName,
                       ApiId |-> Absent]],
      [Type |-> "HttpApi",
       Properties |-> [kind |-> "map", Auth |-> TRUE, RestApiId |-> Absent,
                       ApiId |-> ApiName]] }
ManyBodies(kinds) ==
    [stack_path : {RootPath}, events : SeqsUpTo(kinds, MaxEvents)]
ManyResources ==
    [p \in StackPaths |->
        IF p = RootPath
        THEN DictWith(Resource(
                [kind |-> "map", Auth |-> FALSE, DefinitionBody |-> InsecureDoc,
                 hasBody |-> TRUE, DefinitionUri |-> NoUri]))
        ELSE EmptyDict]
InitMany ==
    /\ \E kinds \in {K \in SUBSET ManyEvents : Cardinality(K) = 2} :
       \E k \in 0..MaxFunctions : \E b \in [1..k -> ManyBodies(kinds)] :
          functions = [i \in 1..k |-> Function(i, b[i])]
    /\ resources = ManyResources

\* One function with one API event of any shape, in either scope; the
\* function's scope holds any resource over the small documents, the
\* other scope no resource, an authorized one or an empty one.
LookupEvents ==
    ApiEvents({NoEventProperties, BadEventProperties} \cup EventProperties)
LookupProperties ==
    {NoResourceProperties, BadResourceProperties}
    \cup ResourceProperties(SmallDocs, {NoUri} \cup Uris({NoneDoc, SecureDoc}))
AuthOnly ==
    [kind |-> "map", Auth |-> TRUE, DefinitionBody |-> EmptyDoc,
     hasBody |-> FALSE, DefinitionUri |-> NoUri]
OtherScopeMaps == ResourceMaps({NoResourceProperties, AuthOnly})
InitLookup ==
    \E own \in StackPaths, e \in LookupEvents :
       /\ functions = <<Function(1, [stack_path |-> own, events |-> <<e>>])>>
       /\ \E mine \in ResourceMaps(LookupProperties), theirs \in OtherScopeMaps :
             resources = [p \in StackPaths |-> IF p = own THEN mine ELSE theirs]

\* One function with one event bound to a resource whose inline document
\* is any document within the bounds, or whose uri resolves to a small one.
ScanEvent ==
    [Type |-> "Api",
     Properties |-> [kind |-> "map", Auth |-> FALSE, RestApiId |-> ApiName,
                     ApiId |-> Absent]]
ScanProperties ==
    ResourceProperties(Docs, {NoUri})
    \cup ResourceProperties({EmptyDoc}, Uris({NoneDoc} \cup SmallDocs))
InitScan ==
    /\ functions = <<Function(1, [stack_path |-> RootPath, events |-> <<ScanEvent>>])>>
    /\ \E p \in ScanProperties :
          resources = [s \in StackPaths |->
                          IF s = RootPath THEN DictWith(Resource(p)) ELSE EmptyDict]

Init ==
    /\ InitMany \/ InitLookup \/ InitScan
    /\ pc = "functions"
    /\ fi = 1
    /\ ei = 1
    /\ pj = 1
    /\ auth_resource_list = <<>>
    /\ origin = <<>>
    /\ res_auth = FALSE
    /\ swagger = NoneDoc
    /\ pi = 1
    /\ auths = <<>>
    /\ scan_log = <<>>
    /\ calls = <<>>
    /\ raised_at = ""

\* ------------------------------------------------------------ actions
inputs == <<functions, resources>>
scan_vars == <<res_auth, swagger, pi, auths>>
ghosts == <<scan_log, calls, raised_at>>

\* An AttributeError leaves the pass; nothing is returned.
Raise(at) ==
    /\ pc' = "raised"
    /\ raised_at' = at
    /\ UNCHANGED <<inputs, fi, ei, pj, auth_resource_list, origin, scan_vars,
                   scan_log, calls>>

\* auth_resource_list.append((sam_function.name, auth)), then on to the
\* next pair of the inner loop.
Emit(auth) ==
    /\ auth_resource_list' = ListAppend(auth_resource_list, <<sam_function.name, auth>>)
    /\ origin' = Append(origin, <<fi, ei>>)
    /\ pj' = pj + 1
    /\ pc' = "pairs"

\* auth_per_resource: `for sam_function in get_all(): if sam_function.events:`
EnterFunction ==
    /\ pc = "functions"
    /\ fi <= Len(functions)
    /\ HasEvents(sam_function)
    /\ ei' = 1
    /\ pc' = "events"
    /\ UNCHANGED <<inputs, fi, pj, auth_resource_list, origin, scan_vars, ghosts>>

SkipFunction ==
    /\ pc = "functions"
    /\ fi <= Len(functions)
    /\ ~HasEvents(sam_function)
    /\ fi' = fi + 1
    /\ UNCHANGED <<inputs, pc, ei, pj, auth_resource_list, origin, scan_vars, ghosts>>

\* auth_per_resource: `return _auth_per_resource`
Return ==
    /\ pc = "functions"
    /\ fi > Len(functions)
    /\ pc' = "done"
    /\ UNCHANGED <<inputs, fi, ei, pj, auth_resource_list, origin, scan_vars, ghosts>>

\* _auth_resource_event: `for event in sam_function.events.values():`
NextEvent ==
    /\ pc = "events"
    /\ ei <= Len(sam_function.events)
    /\ pj' = 1
    /\ pc' = "pairs"
    /\ UNCHANGED <<inputs, fi, ei, auth_resource_list, origin, scan_vars, ghosts>>

EndEvents ==
    /\ pc = "events"
    /\ ei > Len(sam_function.events)
    /\ fi' = fi + 1
    /\ pc' = "functions"
    /\ UNCHANGED <<inputs, ei, pj, auth_resource_list, origin, scan_vars, ghosts>>

\* `for event_type, identifier in [...]: if event.get("Type") == event_type:`
MatchPair ==
    /\ pc = "pairs"
    /\ pj <= Len(Pairs)
    /\ event.Type = Pairs[pj].event_type
    /\ pc' = "event_auth"
    /\ UNCHANGED <<inputs, fi, ei, pj, auth_resource_list, origin, scan_vars, ghosts>>

SkipPair ==
    /\ pc = "pairs"
    /\ pj <= Len(Pairs)
    /\ event.Type # Pairs[pj].event_type
    /\ pj' = pj + 1
    /\ UNCHANGED <<inputs, pc, fi, ei, auth_resource_list, origin, scan_vars, ghosts>>

EndPairs ==
    /\ pc = "pairs"
    /\ pj > Len(Pairs)
    /\ ei' = ei + 1
    /\ pc' = "events"
    /\ UNCHANGED <<inputs, fi, pj, auth_resource_list, origin, scan_vars, ghosts>>

\* `if event.get("Properties", {}).get("Auth", False):` on a Properties that
\* is not a dict
EventAuthRaise ==
    /\ pc = "event_auth"
    /\ event.Properties.kind = "nonmap"
    /\ Raise("event_auth")

\* ... truthy: `auth_resource_list.append((sam_function.name, True))`
EventAuthTrue ==
    /\ pc = "event_auth"
    /\ event.Properties.kind # "nonmap"
    /\ event.Properties.Auth
    /\ Emit(TRUE)
    /\ UNCHANGED <<inputs, fi, ei, scan_vars, ghosts>>

\* ... falsy: `elif _auth_id(...)` is entered
EventAuthFalse ==
    /\ pc = "event_auth"
    /\ event.Properties.kind # "nonmap"
    /\ ~event.Properties.Auth
    /\ pc' = "auth_id"
    /\ UNCHANGED <<inputs, fi, ei, pj, auth_resource_list, origin, scan_vars, ghosts>>

\* The resource _auth_id looks at: lines 95-96.
api_resource ==
    ApiResource(ScopeResources(sam_function),
                ResourceName(event.Properties, Pairs[pj].identifier))

\* _auth_id, first element of the list: api_resource.get("Properties", {})
\* .get("Auth", False); the list is built whole before any() sees it, so
\* the call of _auth_definition_body_and_uri follows whatever the value.
AuthIdRaise ==
    /\ pc = "auth_id"
    /\ api_resource.Properties.kind = "nonmap"
    /\ Raise("auth_id")

AuthIdResourceAuth ==
    /\ pc = "auth_id"
    /\ api_resource.Properties.kind # "nonmap"
    /\ res_auth' = api_resource.Properties.Auth
    /\ pc' = "read"
    /\ UNCHANGED <<inputs, fi, ei, pj, auth_resource_list, origin, swagger, pi,
                   auths, ghosts>>

\* _auth_definition_body_and_uri: `swagger = reader.read()`, `_auths = []`
ReadSwagger ==
    /\ pc = "read"
    /\ swagger' = SwaggerRead(api_resource.Properties.DefinitionBody,
                              api_resource.Properties.DefinitionUri)
    /\ auths' = <<>>
    /\ calls' = Append(calls, "read")
    /\ pc' = "scan"
    /\ UNCHANGED <<inputs, fi, ei, pj, auth_resource_list, origin, res_auth, pi,
                   scan_log, raised_at>>

\* `if not swagger: swagger = {}` then `swagger.get("paths", {}).items()`
ScanBeginRaise ==
    /\ pc = "scan"
    /\ \/ OrEmpty(swagger).kind = "str"
       \/ OrEmpty(swagger).paths.kind = "nonmap"
    /\ Raise("scan")

ScanBegin ==
    /\ pc = "scan"
    /\ OrEmpty(swagger).kind # "str"
    /\ OrEmpty(swagger).paths.kind # "nonmap"
    /\ pi' = 1
    /\ pc' = "paths"
    /\ UNCHANGED <<inputs, fi, ei, pj, auth_resource_list, origin, res_auth,
                   swagger, auths, ghosts>>

\* One turn of `for _, verb in ...items(): _auths.extend(...)`
ScanPathRaise ==
    /\ pc = "paths"
    /\ pi <= Len(swagger.paths.items)
    /\ swagger.paths.items[pi].kind = "nonmap"
    /\ Raise("paths")

ScanPath ==
    /\ pc = "paths"
    /\ pi <= Len(swagger.paths.items)
    /\ swagger.paths.items[pi].kind # "nonmap"
    /\ auths' = auths \o OperationAuths(swagger.paths.items[pi].ops)
    /\ pi' = pi + 1
    /\ UNCHANGED <<inputs, pc, fi, ei, pj, auth_resource_list, origin, res_auth,
                   swagger, ghosts>>

\* After the loop: the top-level security, the advisory, `return any(_auths)`;
\* back in _auth_id any([...]) decides which tuple _auth_resource_event appends.
ScanEnd ==
    /\ pc = "paths"
    /\ pi > Len(swagger.paths.items)
    /\ LET all == Append(auths, OrEmpty(swagger).security)
           result == ScanResult(all)
           advisory == EmitsAdvisory(swagger, result)
       IN  /\ auths' = all
           /\ calls' = IF advisory THEN Append(calls, "advisory") ELSE calls
           /\ scan_log' = Append(scan_log,
                  [doc |-> swagger, result |-> result, advisory |-> advisory])
           /\ Emit(AuthIdResult(res_auth, result))
    /\ UNCHANGED <<inputs, fi, ei, res_auth, swagger, pi, raised_at>>

Next ==
    \/ EnterFunction
    \/ SkipFunction
    \/ Return
    \/ NextEvent
    \/ EndEvents
    \/ MatchPair
    \/ SkipPair
    \/ EndPairs
    \/ EventAuthRaise
    \/ EventAuthTrue
    \/ EventAuthFalse
    \/ AuthIdRaise
    \/ AuthIdResourceAuth
    \/ ReadSwagger
    \/ ScanBeginRaise
    \/ ScanBegin
    \/ ScanPathRaise
    \/ ScanPath
    \/ ScanEnd

Spec == Init /\ [][Next]_vars

\* ----------------------------------------------- what the claims speak of
\* These definitions read the inputs directly; none of them uses the
\* operators or the variables the pass computes with.
IsApiTrigger(e) == e.Type \in {"Api", "HttpApi"}

\* The identifier key the event's type fixes.
OwnKey(e) == IF e.Type = "Api" THEN "RestApiId" ELSE "ApiId"

\* The value an event stores under a key (Absent when there is none).
KeyValue(e, key) ==
    IF e.Properties.kind # "map" THEN Absent
    ELSE IF key = "RestApiId" THEN e.Properties.RestApiId
    ELSE e.Properties.ApiId

\* The event's Properties can be read: a mapping, or missing altogether.
WellFormedEvent(e) == e.Properties.kind \in {"map", "absent"}

EventAuthSignal(e) == e.Properties.kind = "map" /\ e.Properties.Auth

InScope(path, name) == name \in DOMAIN resources[path]

\* Properties of the resource a name denotes in a scope; those of an empty
\* resource when the scope has no such resource.
PropertiesIn(path, name) ==
    IF InScope(path, name) THEN resources[path][name].Properties
    ELSE NoResourceProperties

ResourceAuthSignal(props) == props.kind = "map" /\ props.Auth

\* The document has a truthy top-level security, or an operation that is a
\* mapping, under some path, with a truthy security.
DocHasSecurity(doc) ==
    /\ doc.kind = "map"
    /\ \/ doc.security
       \/ /\ doc.paths.kind = "map"
          /\ \E p \in 1..Len(doc.paths.items) :
                /\ doc.paths.items[p].kind = "map"
                /\ \E o \in 1..Len(doc.paths.items[p].ops) :
                      doc.paths.items[p].ops[o] = "sec"

\* The document is empty or absent.
EmptyOrAbsent(doc) == doc.kind \in {"none", "emptymap"}

\* The resource's definition document: the inline one, else the uri's.
DocumentOf(props) ==
    IF props.DefinitionBody.kind \in {"str", "map"} THEN props.DefinitionBody
    ELSE IF props.DefinitionUri.kind = "uri" THEN props.DefinitionUri.resolves
    ELSE NoneDoc

DocumentSignal(props) == props.kind = "map" /\ DocHasSecurity(DocumentOf(props))

Authorized(props) == ResourceAuthSignal(props) \/ DocumentSignal(props)

OtherScope(path) == IF path = RootPath THEN ChildPath ELSE RootPath

\* The function and the event behind the k-th outcome.
OutcomeFunction(k) == functions[origin[k][1]]
OutcomeEvent(k) == OutcomeFunction(k).events[origin[k][2]]
OutcomeName(k) == auth_resource_list[k][1]
OutcomeAuth(k) == auth_resource_list[k][2]
Outcomes == 1..Len(auth_resource_list)

\* ------------------------------------------------------------------ C1
ApiEventCount(f) ==
    Cardinality({j \in 1..Len(f.events) : IsApiTrigger(f.events[j])})
EmittedFor(f) == Cardinality({k \in Outcomes : OutcomeName(k) = f.name})

\* C1: every function the pass has finished with has exactly as many
\* outcomes under its name as it has events of Type "Api" or "HttpApi"
\* (none when it has no events or no such event), every function it has not
\* reached has none, and when the pass returns it has finished with all.
C1_OneOutcomePerApiEvent ==
    /\ \A i \in 1..Len(functions) :
          /\ i < fi => EmittedFor(functions[i]) = ApiEventCount(functions[i])
          /\ i > fi => EmittedFor(functions[i]) = 0
    /\ pc = "done" => fi = Len(functions) + 1

\* A returned list with two outcomes for a function of two API events and
\* none for a function whose only event is of another type.
C1_Witness ==
    /\ pc = "done"
    /\ \E i, j \in 1..Len(functions) :
          /\ ApiEventCount(functions[i]) = 2
          /\ EmittedFor(functions[i]) = 2
          /\ Len(functions[j].events) > 0
          /\ ApiEventCount(functions[j]) = 0
          /\ EmittedFor(functions[j]) = 0

\* ------------------------------------------------------------------ C2
\* C2: the boolean of every outcome is the disjunction of the three
\* signals: the event's Auth, the Auth of the resource the event's
\* identifier names in the function's scope, the security of that
\* resource's document; and an event with a truthy Auth never raises.
C2_OutcomeIsAnySignal ==
    /\ \A k \in Outcomes :
          LET f == OutcomeFunction(k)
              e == OutcomeEvent(k)
              props == PropertiesIn(f.stack_path, KeyValue(e, OwnKey(e)))
          IN  OutcomeAuth(k) <=>
                 \/ EventAuthSignal(e)
                 \/ ResourceAuthSignal(props)
                 \/ DocumentSignal(props)
    /\ pc = "raised" => ~EventAuthSignal(event)

\* An outcome that is true by the event's Auth alone: the resource the
\* event names is missing from the scope.
C2_Witness ==
    \E k \in Outcomes :
       LET f == OutcomeFunction(k)
           e == OutcomeEvent(k)
       IN  /\ OutcomeAuth(k)
           /\ EventAuthSignal(e)
           /\ KeyValue(e, OwnKey(e)) = ApiName
           /\ ~InScope(f.stack_path, ApiName)

\* ------------------------------------------------------------------ C3
\* C3: the pass never raises, whatever the shape of the events, the
\* resources and the documents.
C3_NeverRaises == pc # "raised"

\* ------------------------------------------------------------------ C4
\* C4: when the target resource's Auth is truthy, _auth_id neither
\* resolves nor scans the resource's document.
C4_ShortCircuit == pc \in {"read", "scan", "paths"} => ~res_auth

\* ------------------------------------------------------------------ C5
ScanRaised == raised_at \in {"scan", "paths"}

\* C5: every scan that returns, returns whether the document has a truthy
\* top-level security or a mapping operation with a truthy security; a
\* scan raises only on a non-empty document that is not a mapping, whose
\* paths is not a mapping or that has a path entry that is not a mapping
\* (so never on an empty or absent document, nor on an operation entry).
C5_ScanIsAnyMatch ==
    /\ \A n \in 1..Len(scan_log) :
          scan_log[n].result <=> DocHasSecurity(scan_log[n].doc)
    /\ ScanRaised =>
          /\ ~EmptyOrAbsent(swagger)
          /\ \/ swagger.kind = "str"
             \/ swagger.paths.kind = "nonmap"
             \/ \E p \in 1..Len(swagger.paths.items) :
                   swagger.paths.items[p].kind = "nonmap"

\* A scan that returned true for a document without top-level security,
\* one of whose operations has a security and another has none.
C5_Witness ==
    \E n \in 1..Len(scan_log) :
       LET d == scan_log[n].doc
       IN  /\ scan_log[n].result
           /\ ~d.security
           /\ \E p, q \in 1..Len(d.paths.items) :
                 /\ d.paths.items[p].ops = <<"sec">>
                 /\ d.paths.items[q].ops = <<"nosec">>

\* ------------------------------------------------------------------ C6
\* The event has no truthy Auth and its identifier is absent or names no
\* resource of the function's scope.
Unbound(f, e) ==
    /\ IsApiTrigger(e)
    /\ WellFormedEvent(e)
    /\ ~EventAuthSignal(e)
    /\ \/ KeyValue(e, OwnKey(e)) = Absent
       \/ ~InScope(f.stack_path, KeyValue(e, OwnKey(e)))

\* The event names a resource that is present and empty.
BoundToEmpty(f, e) ==
    /\ IsApiTrigger(e)
    /\ WellFormedEvent(e)
    /\ ~EventAuthSignal(e)
    /\ InScope(f.stack_path, KeyValue(e, OwnKey(e)))
    /\ PropertiesIn(f.stack_path, KeyValue(e, OwnKey(e))).kind = "absent"

\* C6: the outcome of an unbound event is false, as is the outcome of an
\* event bound to a present but empty resource, and the pass does not
\* raise at such an event.
C6_UnboundIsFalse ==
    /\ \A k \in Outcomes :
          (Unbound(OutcomeFunction(k), OutcomeEvent(k))
             \/ BoundToEmpty(OutcomeFunction(k), OutcomeEvent(k)))
          => ~OutcomeAuth(k)
    /\ pc = "raised" =>
          ~(Unbound(sam_function, event) \/ BoundToEmpty(sam_function, event))

\* A false outcome for an event whose identifier names a resource that the
\* function's scope does not hold.
C6_Witness ==
    \E k \in Outcomes :
       /\ ~OutcomeAuth(k)
       /\ Unbound(OutcomeFunction(k), OutcomeEvent(k))
       /\ KeyValue(OutcomeEvent(k), OwnKey(OutcomeEvent(k))) = ApiName

\* ------------------------------------------------------------------ C7
Precedes(a, b) == a[1] < b[1] \/ (a[1] = b[1] /\ a[2] < b[2])

InOrder ==
    /\ \A k, l \in Outcomes : k < l => Precedes(origin[k], origin[l])
    /\ \A k \in Outcomes : OutcomeName(k) = OutcomeFunction(k).name

AppendOnly ==
    /\ Len(auth_resource_list') >= Len(auth_resource_list)
    /\ SubSeq(auth_resource_list', 1, Len(auth_resource_list)) = auth_resource_list

\* C7: the outcomes are in the order of the functions and, within a
\* function, of its events, each under its function's name; and a step of
\* the pass only appends to the list.
C7_OrderPreserved == []InOrder /\ [][AppendOnly]_vars

\* A returned list in which two outcomes of the first function, of
\* different value, precede an outcome of the second.
C7_Witness ==
    /\ pc = "done"
    /\ Len(auth_resource_list) >= 3
    /\ OutcomeName(1) = functions[1].name
    /\ OutcomeName(2) = functions[1].name
    /\ OutcomeAuth(1) # OutcomeAuth(2)
    /\ OutcomeName(3) = functions[2].name

\* ------------------------------------------------------------------ C8
\* C8: for an event without Auth, a same-named authorized resource of the
\* other scope does not make the outcome true when the function's own
\* scope does not authorize, and an unauthorized or missing one does not
\* make it false when the own scope authorizes.
C8_OwnScopeOnly ==
    \A k \in Outcomes :
       LET f == OutcomeFunction(k)
           e == OutcomeEvent(k)
           name == KeyValue(e, OwnKey(e))
           own == PropertiesIn(f.stack_path, name)
           other == PropertiesIn(OtherScope(f.stack_path), name)
       IN  (WellFormedEvent(e) /\ ~EventAuthSignal(e)) =>
              /\ (Authorized(other) /\ ~Authorized(own)) => ~OutcomeAuth(k)
              /\ (Authorized(own) /\ ~Authorized(other)) => OutcomeAuth(k)

\* A false outcome for a function of the child scope whose event names a
\* resource that only the root scope authorizes.
C8_Witness ==
    \E k \in Outcomes :
       LET f == OutcomeFunction(k)
           e == OutcomeEvent(k)
       IN  /\ ~OutcomeAuth(k)
           /\ f.stack_path = ChildPath
           /\ KeyValue(e, OwnKey(e)) = ApiName
           /\ InScope(ChildPath, ApiName)
           /\ Authorized(PropertiesIn(RootPath, ApiName))

\* ------------------------------------------------------------------ C9
\* C9: only events of Type "Api" or "HttpApi" have outcomes, no event has
\* two, and the outcome of an event without Auth is whether the resource
\* named under the key of its own type ("RestApiId" for "Api", "ApiId" for
\* "HttpApi") is authorized: false when that key is absent, whatever the
\* other key holds.
C9_KeyFixedByType ==
    /\ \A k \in Outcomes : IsApiTrigger(OutcomeEvent(k))
    /\ \A k, l \in Outcomes : origin[k] = origin[l] => k = l
    /\ \A k \in Outcomes :
          LET f == OutcomeFunction(k)
              e == OutcomeEvent(k)
              key == IF e.Type = "Api" THEN "RestApiId" ELSE "ApiId"
          IN  (WellFormedEvent(e) /\ ~EventAuthSignal(e)) =>
                 /\ KeyValue(e, key) = Absent => ~OutcomeAuth(k)
                 /\ OutcomeAuth(k) <=>
                       Authorized(PropertiesIn(f.stack_path, KeyValue(e, key)))

\* A false outcome for an "Api" event that has no "RestApiId" and whose
\* "ApiId" names an authorized resource of the scope.
C9_Witness ==
    \E k \in Outcomes :
       LET f == OutcomeFunction(k)
           e == OutcomeEvent(k)
       IN  /\ ~OutcomeAuth(k)
           /\ e.Type = "Api"
           /\ KeyValue(e, "RestApiId") = Absent
           /\ KeyValue(e, "ApiId") = ApiName
           /\ Authorized(PropertiesIn(f.stack_path, ApiName))

\* ----------------------------------------------------------------- C10
Advisories == Len(SelectSeq(calls, LAMBDA c : c = "advisory"))
NonEmptyScans == Len(SelectSeq(scan_log, LAMBDA s : ~EmptyOrAbsent(s.doc)))

\* C10: a scan that returns has emitted the advisory exactly when its
\* document is non-empty, whatever it returns, and no advisory comes from
\* anywhere else.
C10_AdvisoryIffNonEmpty ==
    /\ \A n \in 1..Len(scan_log) :
          scan_log[n].advisory <=> ~EmptyOrAbsent(scan_log[n].doc)
    /\ Advisories = NonEmptyScans

\* A scan of a non-empty mapping that found no security and emitted the
\* one advisory of the pass.
C10_Witness ==
    /\ \E n \in 1..Len(scan_log) :
          /\ scan_log[n].advisory
          /\ ~scan_log[n].result
          /\ scan_log[n].doc.kind = "map"
    /\ Advisories = 1

====
